---- MODULE Spec2Model ----
(***************************************************************************)
(* aiothrottle: Throttle (rate meter) and ThrottledStreamReader (buffered  *)
(* reader that pauses/resumes its transport), src/aiothrottle/throttle.py. *)
(*                                                                         *)
(* Time is counted in clock ticks of TickMs milliseconds.  Durations that   *)
(* the code computes by float division (io / limit) are kept as exact      *)
(* fractions [num, den] of ticks and compared by cross-multiplication, so  *)
(* no rounding is introduced by the model.                                 *)
(***************************************************************************)
EXTENDS Integers, Sequences, FiniteSets, TLC

\* ---------------------------------------------------------------- bounds
MaxTime == 1
TickMs == 200
MaxFed == 4
LineEvery == 3
MaxIo == 6

\* inputs
Rates == {5, 10}
BadRates == {0}
InvalidLimits == {-10, -1, 0}
BufferLimits == {1}
ChunkSizes == {0, 1, 2}
ReadSizes == {-1, 0, 1}
ExactSizes == {2}

Newline == 10

\* the worked scenarios: rate 10 B/s, buffer limit 10, feeds of 12
\* bytes, reads of 4 and 12 bytes, over 1.2 s and more
ScenarioMaxTime == 6
ScenarioMaxFed == 24
ScenarioRates == {10}
ScenarioLimits == {10}
ScenarioChunks == {12}
ScenarioReads == {4, 12}

VARIABLES
    now,            \* loop.time(), in ticks
    supports,       \* the transport has pause_reading / resume_reading
    buffer,         \* StreamReader._buffer
    eof,            \* StreamReader._eof
    limit,          \* Throttle._limit
    io,             \* Throttle._io
    reset_time,     \* Throttle._reset_time
    buffer_limit,   \* the buffer_limit argument the reader was built with
    b_limit,        \* ThrottledStreamReader._b_limit
    b_limit_reached,\* ThrottledStreamReader._b_limit_reached
    check_handle,   \* ThrottledStreamReader._check_handle
    throttling,     \* ThrottledStreamReader._throttling
    paused,         \* stream.paused, the reader's mirror of the transport
    tpaused,        \* the transport's own paused state
    timers,         \* the loop's scheduled, uncancelled call_later handles
    rd,             \* the consumer's read* coroutine
    issued,         \* transport calls issued by the last handler
    prev_call,      \* the last transport call issued before that handler
    fed,            \* number of bytes fed so far
    out,            \* bytes delivered to the consumer so far
    first_feed,     \* time of the first feed_data, -1 before it
    steady,         \* since construction: throttling on, rate unchanged
    feed_steady,    \* since the last feed_data: the same
    flow_control_class, \* ClientResponse.flow_control_class
    last_switch     \* the last call of aiothrottle.limit_rate / unlimit_rate

vars == <<now, supports, buffer, eof, limit, io, reset_time, buffer_limit,
          b_limit,
          b_limit_reached, check_handle, throttling, paused, tpaused, timers,
          rd, issued, prev_call, fed, out, first_feed, steady, feed_steady,
          flow_control_class, last_switch>>

\* ------------------------------------------------------------- helpers
Min(a, b) == IF a < b THEN a ELSE b

\* The byte at position i of what the transport delivers: every
\* LineEvery-th byte is a line terminator, the others are distinct.
Source(i) == IF i % LineEvery = 0 THEN Newline ELSE 100 + i

SourceSeq(from, n) == [j \in 1..n |-> Source(from + j)]

IsPrefix(a, b) == Len(a) <= Len(b) /\ SubSeq(b, 1, Len(a)) = a

\* None, for _check_handle
NoHandle == [id |-> 0, num |-> 0, den |-> 1]

IdleReader == [pc |-> "idle", op |-> "none", n |-> 0, inner |-> FALSE,
               data |-> <<>>, acc |-> <<>>, since |-> 0]

\* The program state a handler works on.
Cur == [buffer |-> buffer, eof |-> eof, limit |-> limit, io |-> io,
        reset_time |-> reset_time, b_limit |-> b_limit,
        b_limit_reached |-> b_limit_reached, check_handle |-> check_handle,
        throttling |-> throttling, paused |-> paused, tpaused |-> tpaused,
        timers |-> timers, rd |-> rd, issued |-> <<>>, out |-> out,
        raised |-> "none"]

\* ------------------------------------------------------------ Throttle
\* the limit setter rejecting only negative values (value < 0)
set_limit_nonneg(s, value) ==
    IF value < 0 THEN [s EXCEPT !.raised = "ValueError"]
    ELSE [s EXCEPT !.limit = value]

\* Throttle.limit setter: a value <= 0 raises ValueError and sets nothing.
set_limit(s, value) ==
    IF value <= 0 THEN [s EXCEPT !.raised = "ValueError"]
    ELSE [s EXCEPT !.limit = value]

\* time_left with whole-number division (_io // _limit): the fraction of
\* a second is dropped.
time_left_floordiv(s) == [num |-> (s.io \div s.limit) * 1000, den |-> TickMs]

\* Throttle.__init__: _limit = 0, then the setter (which may raise and
\* leave no object), then _io = 0 and _reset_time = loop.time().
Throttle_init(value) ==
    LET t == set_limit([limit |-> 0, raised |-> "none"], value)
    IN  IF t.raised # "none" THEN [made |-> FALSE, raised |-> t.raised]
        ELSE [made |-> TRUE, raised |-> "none", limit |-> t.limit,
              io |-> 0, reset_time |-> now]

\* time_left with the time elapsed since the reset taken off
time_left_elapsed(s) ==
    [num |-> s.io * 1000 - (now - s.reset_time) * s.limit * TickMs,
     den |-> s.limit * TickMs]

\* Throttle.time_left: _io / _limit seconds, as a fraction of ticks.
time_left(s) == [num |-> s.io * 1000, den |-> s.limit * TickMs]

add_io(s, byte_count) == [s EXCEPT !.io = @ + byte_count]

reset_io(s) == [s EXCEPT !.io = 0, !.reset_time = now]

\* current_rate returning -1 instead of raising when no time has passed
current_rate_minus_one(s) ==
    IF s.io <= 0 THEN [ok |-> TRUE, num |-> 0, den |-> 1]
    ELSE IF now - s.reset_time <= 0 THEN [ok |-> TRUE, num |-> -1, den |-> 1]
    ELSE [ok |-> TRUE, num |-> s.io * 1000,
          den |-> (now - s.reset_time) * TickMs]

\* Throttle.current_rate: 0 when nothing is accounted, RuntimeError (ok
\* FALSE) when no time has passed since the reset, else _io / duration
\* in bytes per second, as a fraction.
current_rate(s) ==
    IF s.io <= 0 THEN [ok |-> TRUE, num |-> 0, den |-> 1]
    ELSE IF now - s.reset_time <= 0 THEN [ok |-> FALSE, num |-> 0, den |-> 1]
    ELSE [ok |-> TRUE, num |-> s.io * 1000,
          den |-> (now - s.reset_time) * TickMs]

\* within_limit with "equal or below": current <= _limit
within_limit_le(s) ==
    LET current == current_rate(s)
    IN  [ok |-> current.ok,
         val |-> current.ok /\ current.num <= s.limit * current.den]

\* Throttle.within_limit: current < _limit; the RuntimeError propagates.
within_limit(s) ==
    LET current == current_rate(s)
    IN  [ok |-> current.ok,
         val |-> current.ok /\ current.num < s.limit * current.den]

\* ----------------------------------------------- transport and the loop
TransportCall(s, name) ==
    [s EXCEPT !.issued = Append(@, name)]

\* Handle.cancel()
Cancel(s, h) == [s EXCEPT !.timers = @ \ {h}]

FreeId(s) ==
    CHOOSE i \in 1..(Cardinality(s.timers) + 1) :
        \A h \in s.timers : h.id # i

\* loop.call_later(delay, self._check_callback), delay a fraction of ticks
call_later(s, delay) ==
    [id |-> FreeId(s), num |-> now * delay.den + delay.num, den |-> delay.den]

Due(h) == now * h.den >= h.num

\* ----------------------------------------------- ThrottledStreamReader
_try_pause(s) ==
    IF s.paused THEN s
    ELSE IF ~supports THEN s      \* AttributeError, swallowed
    ELSE [TransportCall(s, "pause") EXCEPT !.tpaused = TRUE, !.paused = TRUE]

\* _try_resume without the look at stream.paused
_try_resume_unguarded(s) ==
    IF ~supports THEN s
    ELSE [TransportCall(s, "resume") EXCEPT !.tpaused = FALSE,
                                            !.paused = FALSE]

_try_resume(s) ==
    IF ~s.paused THEN s
    ELSE IF ~supports THEN s      \* AttributeError, swallowed
    ELSE [TransportCall(s, "resume") EXCEPT !.tpaused = FALSE,
                                            !.paused = FALSE]

_check_callback(s) == _try_resume([s EXCEPT !.check_handle = NoHandle])

\* _schedule_resume without cancelling the handle it replaces
_schedule_resume_nocancel(s) ==
    LET h == call_later(s, time_left(s))
    IN  [s EXCEPT !.timers = @ \cup {h}, !.check_handle = h]

_schedule_resume(s) ==
    LET s1 == IF s.check_handle # NoHandle THEN Cancel(s, s.check_handle)
              ELSE s
        h  == call_later(s1, time_left(s1))
    IN  [s1 EXCEPT !.timers = @ \cup {h}, !.check_handle = h]

\* _check_buffer_limit with within_limit() called before the look at
\* stream.paused: the RuntimeError branch is taken when not paused too
_check_buffer_limit_eager(s) ==
    LET buf_size == Len(s.buffer)
        wl == within_limit(s)
        resume == buf_size < s.b_limit /\ (~s.throttling \/ wl.val)
    IN  IF ~wl.ok THEN [s EXCEPT !.raised = "retry"]
        ELSE IF s.paused
        THEN IF resume
             THEN [_try_resume(s) EXCEPT !.b_limit_reached = FALSE]
             ELSE _schedule_resume(s)
        ELSE IF buf_size <= s.b_limit THEN s
             ELSE [s EXCEPT !.raised = "AssertionError"]

\* _check_buffer_limit resuming on a buffer under the threshold whatever
\* the rate ("or" for "and" in the resume condition)
_check_buffer_limit_or(s) ==
    LET buf_size == Len(s.buffer)
        wl == within_limit(s)
        resume == buf_size < s.b_limit \/ (~s.throttling \/ wl.val)
    IN  IF s.paused
        THEN IF ~wl.ok THEN [s EXCEPT !.raised = "retry"]
             ELSE IF resume
                  THEN [_try_resume(s) EXCEPT !.b_limit_reached = FALSE]
                  ELSE _schedule_resume(s)
        ELSE IF buf_size <= s.b_limit THEN s
             ELSE [s EXCEPT !.raised = "AssertionError"]

\* One pass of _check_buffer_limit. raised = "retry" stands for the
\* RuntimeError branch (sleep, then run the check again).
_check_buffer_limit(s) ==
    LET buf_size == Len(s.buffer)
        wl == within_limit(s)
        resume == buf_size < s.b_limit /\ (~s.throttling \/ wl.val)
    IN  IF s.paused
        THEN IF ~wl.ok THEN [s EXCEPT !.raised = "retry"]
             ELSE IF resume
                  THEN [_try_resume(s) EXCEPT !.b_limit_reached = FALSE]
                  ELSE _schedule_resume(s)
        ELSE IF buf_size <= s.b_limit THEN s
             ELSE [s EXCEPT !.raised = "AssertionError"]

\* _check_limits cancelling the handle only on the throttling path
_check_limits_latecancel(s) ==
    LET s1 == IF s.check_handle # NoHandle
              THEN [Cancel(s, s.check_handle) EXCEPT !.check_handle = NoHandle]
              ELSE s
        s2 == _try_pause(s1)
    IN  IF ~s.throttling
        THEN IF s.paused /\ Len(s.buffer) < s.b_limit THEN _try_resume(s)
             ELSE s
        ELSE IF Len(s1.buffer) >= s2.b_limit
             THEN [s2 EXCEPT !.b_limit_reached = TRUE]
             ELSE _schedule_resume(s2)

_check_limits(s) ==
    LET s1 == IF s.check_handle # NoHandle
              THEN [Cancel(s, s.check_handle) EXCEPT !.check_handle = NoHandle]
              ELSE s
        buf_size == Len(s1.buffer)
        s2 == _try_pause(s1)
    IN  IF ~s1.throttling
        THEN IF s1.paused /\ buf_size < s1.b_limit THEN _try_resume(s1)
             ELSE s1
        ELSE IF buf_size >= s2.b_limit
             THEN [s2 EXCEPT !.b_limit_reached = TRUE]
             ELSE _schedule_resume(s2)

\* StreamReader.feed_data of the base class: empty data is ignored.
super_feed_data(s, data) == [s EXCEPT !.buffer = @ \o data]

\* feed_data adding to the meter without resetting it first
feed_data_noreset(s, data) ==
    _check_limits(add_io(super_feed_data(s, data), Len(data)))

feed_data(s, data) ==
    _check_limits(add_io(reset_io(super_feed_data(s, data)), Len(data)))

\* limit_rate evaluating the limits again under the new rate
limit_rate_recheck(s, value) ==
    LET s1 == set_limit(s, value)
    IN  IF s1.raised # "none" THEN s1
        ELSE _check_limits([s1 EXCEPT !.throttling = TRUE])

limit_rate(s, value) ==
    LET s1 == set_limit(s, value)
    IN  IF s1.raised # "none" THEN s1 ELSE [s1 EXCEPT !.throttling = TRUE]

\* unlimit_rate without the look at the buffer size
unlimit_rate_nocheck(s) == _try_resume([s EXCEPT !.throttling = FALSE])

unlimit_rate(s) ==
    LET s1 == [s EXCEPT !.throttling = FALSE]
    IN  IF Len(s1.buffer) < s1.b_limit THEN _try_resume(s1) ELSE s1

\* __init__ with _b_limit = buffer_limit, the factor 2 left out.
Construct_single(p, rate_limit, blimit) ==
    [buffer |-> <<>>, eof |-> FALSE, limit |-> rate_limit, io |-> 0,
     reset_time |-> now, b_limit |-> blimit,
     b_limit_reached |-> FALSE, check_handle |-> NoHandle,
     throttling |-> TRUE, paused |-> p,
     tpaused |-> IF p /\ supports THEN FALSE ELSE p,
     timers |-> {}, rd |-> IdleReader,
     issued |-> IF p /\ supports THEN <<"resume">> ELSE <<>>,
     out |-> <<>>, raised |-> "none"]

\* ThrottledStreamReader.__init__ on a stream whose paused flag is p:
\* the transport is resumed, stream.paused is not written.
Construct(p, rate_limit, blimit) ==
    [buffer |-> <<>>, eof |-> FALSE, limit |-> rate_limit, io |-> 0,
     reset_time |-> now, b_limit |-> blimit * 2,
     b_limit_reached |-> FALSE, check_handle |-> NoHandle,
     throttling |-> TRUE, paused |-> p,
     tpaused |-> IF p /\ supports THEN FALSE ELSE p,
     timers |-> {}, rd |-> IdleReader,
     issued |-> IF p /\ supports THEN <<"resume">> ELSE <<>>,
     out |-> <<>>, raised |-> "none"]

\* ------------------------------------------------- the read* coroutines
\* data = the first k bytes of the buffer, which are removed from it
Take(s, k) ==
    [s EXCEPT !.rd.data = SubSeq(s.buffer, 1, k),
              !.buffer = SubSeq(s.buffer, k + 1, Len(s.buffer)),
              !.rd.pc = "check"]

Suspend(s) == [s EXCEPT !.rd.pc = "wait"]

\* index of the first line terminator of the buffer, 0 if there is none
FindNewline(b) ==
    IF \E i \in 1..Len(b) : b[i] = Newline
    THEN CHOOSE i \in 1..Len(b) :
             b[i] = Newline /\ \A j \in 1..(i - 1) : b[j] # Newline
    ELSE 0

\* super().read(n) without the n = 0 shortcut: read(0) waits for data
\* like any other read
super_read_nozero(s) ==
    LET n == s.rd.n
    IN  IF n < 0
        THEN IF s.eof THEN Take(s, Len(s.buffer)) ELSE Suspend(s)
        ELSE IF s.buffer = <<>> /\ ~s.eof THEN Suspend(s)
             ELSE Take(s, Min(n, Len(s.buffer)))

\* super().read(n), from its start or from where its waiter woke it
super_read(s) ==
    LET n == s.rd.n
    IN  IF n = 0 THEN [s EXCEPT !.rd.data = <<>>, !.rd.pc = "check"]
        ELSE IF n < 0
             THEN IF s.eof THEN Take(s, Len(s.buffer)) ELSE Suspend(s)
             ELSE IF s.buffer = <<>> /\ ~s.eof THEN Suspend(s)
                  ELSE Take(s, Min(n, Len(s.buffer)))

super_readany(s) ==
    IF s.buffer = <<>> /\ ~s.eof THEN Suspend(s)
    ELSE Take(s, Len(s.buffer))

\* super().readline(): what is buffered is moved to the line up to and
\* including the terminator; without one it moves everything and waits on.
super_readline(s) ==
    LET ichar == FindNewline(s.buffer)
        k     == IF ichar = 0 THEN Len(s.buffer) ELSE ichar
        line  == s.rd.acc \o SubSeq(s.buffer, 1, k)
        s1    == [s EXCEPT !.rd.acc = line,
                           !.buffer = SubSeq(s.buffer, k + 1, Len(s.buffer))]
    IN  IF ichar # 0 \/ s.eof
        THEN [s1 EXCEPT !.rd.data = line, !.rd.pc = "check"]
        ELSE Suspend(s1)

SuperStep(s) ==
    IF s.rd.op = "readany" THEN super_readany(s)
    ELSE IF s.rd.op = "readline" THEN super_readline(s)
    ELSE super_read(s)

\* the call returns data to the consumer
Return(s, data) ==
    [s EXCEPT !.out = @ \o data, !.rd = IdleReader]

\* the post-read check without the try/except around within_limit(): the
\* RuntimeError ends the read* call
CheckStep_propagate(s) ==
    LET c == _check_buffer_limit(s)
        r == c.rd
    IN  IF c.raised = "retry"
        THEN [c EXCEPT !.raised = "RuntimeError", !.rd = IdleReader]
        ELSE IF c.raised = "AssertionError"
        THEN [c EXCEPT !.rd = IdleReader]
        ELSE IF r.op = "readexactly" /\ r.inner
        THEN IF r.data = <<>>
             THEN [Return(c, r.acc) EXCEPT !.raised = "IncompleteReadError"]
             ELSE IF r.n - Len(r.data) > 0
                  THEN [c EXCEPT !.rd.acc = @ \o r.data,
                                 !.rd.n = @ - Len(r.data),
                                 !.rd.data = <<>>, !.rd.pc = "super"]
                  ELSE [c EXCEPT !.rd.acc = <<>>, !.rd.n = 0,
                                 !.rd.data = r.acc \o r.data,
                                 !.rd.inner = FALSE, !.rd.pc = "check"]
        ELSE Return(c, r.data)

\* yield from self._check_buffer_limit(), then what follows it in the
\* caller: read/readany/readline return; inside readexactly, the block
\* just read by self.read(n) is appended and the loop goes on.
CheckStep(s) ==
    LET c == _check_buffer_limit(s)
        r == c.rd
    IN  IF c.raised = "retry"
        THEN [c EXCEPT !.raised = "none", !.rd.pc = "sleep",
                       !.rd.since = now]
        ELSE IF c.raised = "AssertionError"
        THEN [c EXCEPT !.rd = IdleReader]
        ELSE IF r.op = "readexactly" /\ r.inner
        THEN IF r.data = <<>>
             THEN [Return(c, r.acc) EXCEPT !.raised = "IncompleteReadError"]
             ELSE IF r.n - Len(r.data) > 0
                  THEN [c EXCEPT !.rd.acc = @ \o r.data,
                                 !.rd.n = @ - Len(r.data),
                                 !.rd.data = <<>>, !.rd.pc = "super"]
                  ELSE [c EXCEPT !.rd.acc = <<>>, !.rd.n = 0,
                                 !.rd.data = r.acc \o r.data,
                                 !.rd.inner = FALSE, !.rd.pc = "check"]
        ELSE Return(c, r.data)

Blocked(s) == s.rd.pc \in {"idle", "wait", "sleep"}

\* the coroutine runs until it yields to the loop or ends
RECURSIVE RunReader(_)
RunReader(s) ==
    IF Blocked(s) THEN s
    ELSE IF s.rd.pc = "super" THEN RunReader(SuperStep(s))
    ELSE RunReader(CheckStep(s))

StartCall(s, op, n) ==
    RunReader([s EXCEPT !.rd = [IdleReader EXCEPT !.pc = "super", !.op = op,
                                    !.n = n, !.inner = (op = "readexactly")]])

\* the waiter of a suspended super().read*() is set by feed_data (of
\* non-empty data) and by feed_eof
Woken(s) ==
    IF s.rd.op \in {"read", "readexactly"} /\ s.rd.n < 0 THEN s.eof
    ELSE s.buffer # <<>> \/ s.eof

\* ------------------------------------------- the process-wide switch
\* buffer_limit=2**16, the default of ThrottledStreamReader.__init__
DefaultBufferLimit == 65536

\* aiohttp.streams.FlowControlStreamReader
DefaultClass == [cls |-> "FlowControlStreamReader"]

\* limit_rate keeping a partial that is already installed
aiothrottle_limit_rate_once(value) ==
    IF flow_control_class # DefaultClass THEN flow_control_class
    ELSE [cls |-> "ThrottledStreamReader", rate_limit |-> value]

\* aiothrottle.limit_rate(limit): the class becomes
\* functools.partial(ThrottledStreamReader, rate_limit=limit)
aiothrottle_limit_rate(value) ==
    [cls |-> "ThrottledStreamReader", rate_limit |-> value]

\* aiothrottle.unlimit_rate()
aiothrottle_unlimit_rate == DefaultClass

\* ---------------------------------------------------------------- Init
\* The state after ThrottledStreamReader(stream, rate_limit, buffer_limit)
\* for every stream (paused or not, with or without pause support).
InitWith(rates, limits) ==
    /\ now = 0
    /\ supports \in BOOLEAN
    /\ \E p \in BOOLEAN, r \in rates, bl \in limits :
         LET c == Construct(p, r, bl)
         IN  /\ buffer_limit = bl
             /\ buffer = c.buffer
             /\ eof = c.eof
             /\ limit = c.limit
             /\ io = c.io
             /\ reset_time = c.reset_time
             /\ b_limit = c.b_limit
             /\ b_limit_reached = c.b_limit_reached
             /\ check_handle = c.check_handle
             /\ throttling = c.throttling
             /\ paused = c.paused
             /\ tpaused = c.tpaused
             /\ timers = c.timers
             /\ rd = c.rd
             /\ issued = c.issued
             /\ out = c.out
    /\ prev_call = "none"
    /\ fed = 0
    /\ first_feed = -1
    /\ steady = TRUE
    /\ feed_steady = TRUE
    /\ flow_control_class = DefaultClass
    /\ last_switch = [op |-> "none"]

Init == InitWith(Rates, BufferLimits)

\* The handler's result becomes the program state.
Install(s) ==
    /\ UNCHANGED <<now, supports, buffer_limit, flow_control_class,
                   last_switch>>
    /\ rd' = s.rd
    /\ buffer' = s.buffer
    /\ eof' = s.eof
    /\ limit' = s.limit
    /\ io' = s.io
    /\ reset_time' = s.reset_time
    /\ b_limit' = s.b_limit
    /\ b_limit_reached' = s.b_limit_reached
    /\ check_handle' = s.check_handle
    /\ throttling' = s.throttling
    /\ paused' = s.paused
    /\ tpaused' = s.tpaused
    /\ timers' = s.timers
    /\ issued' = s.issued
    /\ out' = s.out
    /\ prev_call' = IF issued = <<>> THEN prev_call
                    ELSE issued[Len(issued)]

\* ------------------------------------------------------------- actions
FeedUpTo(k, max) ==
    /\ ~eof
    /\ fed + k <= max
    /\ Install(feed_data(Cur, SourceSeq(fed, k)))
    /\ fed' = fed + k
    /\ first_feed' = IF first_feed < 0 THEN now ELSE first_feed
    /\ feed_steady' = throttling
    /\ UNCHANGED steady

Feed(k) == FeedUpTo(k, MaxFed)

FeedEof ==
    /\ ~eof
    /\ Install([Cur EXCEPT !.eof = TRUE])
    /\ UNCHANGED <<fed, first_feed, steady, feed_steady>>

Call(op, n) ==
    /\ rd.pc = "idle"
    /\ Install(StartCall(Cur, op, n))
    /\ UNCHANGED <<fed, first_feed, steady, feed_steady>>

Wake ==
    /\ rd.pc = "wait"
    /\ Woken(Cur)
    /\ Install(RunReader([Cur EXCEPT !.rd.pc = "super"]))
    /\ UNCHANGED <<fed, first_feed, steady, feed_steady>>

SleepWake ==
    /\ rd.pc = "sleep"
    /\ now > rd.since
    /\ Install(RunReader([Cur EXCEPT !.rd.pc = "check"]))
    /\ UNCHANGED <<fed, first_feed, steady, feed_steady>>

TimerFire ==
    \E h \in timers :
        /\ Due(h)
        /\ Install(_check_callback(Cancel(Cur, h)))
        /\ UNCHANGED <<fed, first_feed, steady, feed_steady>>

LimitRate(v) ==
    /\ Install(limit_rate(Cur, v))
    /\ steady' = (steady /\ limit' = limit)
    /\ feed_steady' = (feed_steady /\ limit' = limit)
    /\ UNCHANGED <<fed, first_feed>>

UnlimitRate ==
    /\ Install(unlimit_rate(Cur))
    /\ steady' = FALSE
    /\ feed_steady' = FALSE
    /\ UNCHANGED <<fed, first_feed>>

TickUpTo(max) ==
    /\ now < max
    /\ now' = now + 1
    /\ UNCHANGED <<supports, buffer, eof, limit, io, reset_time,
                   buffer_limit, b_limit,
                   b_limit_reached, check_handle, throttling, paused,
                   tpaused, timers, rd, issued, prev_call, fed, out,
                   first_feed, steady, feed_steady,
                   flow_control_class, last_switch>>

Tick == TickUpTo(MaxTime)

Next ==
    \/ \E k \in ChunkSizes : Feed(k)
    \/ FeedEof
    \/ \E n \in ReadSizes : Call("read", n)
    \/ Call("readany", 0)
    \/ Call("readline", 0)
    \/ \E n \in ExactSizes : Call("readexactly", n)
    \/ Wake
    \/ SleepWake
    \/ TimerFire
    \/ \E v \in Rates \cup BadRates : LimitRate(v)
    \/ UnlimitRate
    \/ Tick

Spec == Init /\ [][Next]_vars

\* The worked scenarios, with their own numbers.
ScenarioInit == InitWith(ScenarioRates, ScenarioLimits)

ScenarioFeed(k) == FeedUpTo(k, ScenarioMaxFed)

ScenarioTick == TickUpTo(ScenarioMaxTime)

ScenarioNext ==
    \/ \E k \in ScenarioChunks : ScenarioFeed(k)
    \/ \E n \in ScenarioReads : Call("read", n)
    \/ Wake
    \/ SleepWake
    \/ TimerFire
    \/ UnlimitRate
    \/ ScenarioTick

ScenarioSpec == ScenarioInit /\ [][ScenarioNext]_vars

\* The Throttle used on its own: add_io, reset_io and limit assignments in
\* any order, with the clock advancing in between.
ThrottleInstall(s) ==
    /\ limit' = s.limit
    /\ io' = s.io
    /\ reset_time' = s.reset_time
    /\ UNCHANGED <<now, supports, buffer, eof, buffer_limit, b_limit,
                   b_limit_reached, check_handle, throttling, paused,
                   tpaused, timers, rd, issued, prev_call, fed, out,
                   first_feed, steady, feed_steady,
                   flow_control_class, last_switch>>

AddIo(n) ==
    /\ io + n <= MaxIo
    /\ ThrottleInstall(add_io(Cur, n))

ResetIo == ThrottleInstall(reset_io(Cur))

SetLimit(v) == ThrottleInstall(set_limit(Cur, v))

ThrottleNext ==
    \/ \E n \in ChunkSizes : AddIo(n)
    \/ ResetIo
    \/ \E v \in Rates \cup BadRates : SetLimit(v)
    \/ Tick

ThrottleSpec == Init /\ [][ThrottleNext]_vars


\* The process-wide switch: aiothrottle.limit_rate / unlimit_rate set the
\* class the client builds its readers with, and klass(stream, loop=loop)
\* builds one, which then takes feeds and timer callbacks.
reader_vars == <<now, supports, buffer, eof, limit, io, reset_time,
                 buffer_limit, b_limit, b_limit_reached, check_handle,
                 throttling, paused, tpaused, timers, rd, issued,
                 prev_call, fed, out, first_feed, steady, feed_steady>>

GlobalLimitRate(v) ==
    /\ flow_control_class' = aiothrottle_limit_rate(v)
    /\ last_switch' = [op |-> "limit_rate", limit |-> v]
    /\ UNCHANGED reader_vars

GlobalUnlimitRate ==
    /\ flow_control_class' = aiothrottle_unlimit_rate
    /\ last_switch' = [op |-> "unlimit_rate"]
    /\ UNCHANGED reader_vars

\* klass(stream, loop=loop) with the partial installed, on a stream whose
\* paused flag is p; a ValueError of the Throttle leaves no reader behind.
NewReader(p) ==
    /\ flow_control_class.cls = "ThrottledStreamReader"
    /\ IF Throttle_init(flow_control_class.rate_limit).raised # "none"
       THEN UNCHANGED vars     \* ValueError
       ELSE LET c == Construct(p, flow_control_class.rate_limit,
                               DefaultBufferLimit)
            IN  /\ buffer_limit' = DefaultBufferLimit
                /\ buffer' = c.buffer
                /\ eof' = c.eof
                /\ limit' = c.limit
                /\ io' = c.io
                /\ reset_time' = c.reset_time
                /\ b_limit' = c.b_limit
                /\ b_limit_reached' = c.b_limit_reached
                /\ check_handle' = c.check_handle
                /\ throttling' = c.throttling
                /\ paused' = c.paused
                /\ tpaused' = c.tpaused
                /\ timers' = c.timers
                /\ rd' = c.rd
                /\ issued' = c.issued
                /\ out' = c.out
                /\ prev_call' = "none"
                /\ fed' = 0
                /\ first_feed' = -1
                /\ steady' = TRUE
                /\ feed_steady' = TRUE
                /\ UNCHANGED <<now, supports, flow_control_class,
                               last_switch>>

GlobalNext ==
    \/ \E v \in Rates \cup BadRates : GlobalLimitRate(v)
    \/ GlobalUnlimitRate
    \/ \E p \in BOOLEAN : NewReader(p)
    \/ \E k \in ChunkSizes : Feed(k)
    \/ TimerFire
    \/ Tick

GlobalSpec == Init /\ [][GlobalNext]_vars

\* ------------------------------------------------------- step predicates
Has(calls, name) == \E i \in 1..Len(calls) : calls[i] = name

Issued(name) == Has(issued, name)

FeedStep == \E k \in ChunkSizes : Feed(k)

\* a step of a read* call: its start, or its continuation after a wait
ReadStep ==
    \/ \E n \in ReadSizes : Call("read", n)
    \/ Call("readany", 0)
    \/ Call("readline", 0)
    \/ \E n \in ExactSizes : Call("readexactly", n)
    \/ Wake
    \/ SleepWake

AdminStep == (\E v \in Rates \cup BadRates : LimitRate(v)) \/ UnlimitRate

\* ================================================================ claims

\* C1: resume_reading is never issued while the buffer occupancy is at or
\* above the backpressure threshold _b_limit (a handler that issued
\* resume_reading ends with the buffer under the threshold).
C1_NoResumeOverLimit == Issued("resume") => Len(buffer) < b_limit

\* C3: for a transport that supports pause/resume, the mirror stream.paused
\* equals the transport's paused state in every state from construction on.
C3_MirrorMatchesTransport == supports => (paused = tpaused)

\* C4: the transport calls issued by the reader alternate: no two
\* consecutive calls are both resume_reading or both pause_reading.
C4_CallsAlternate ==
    LET calls == <<prev_call>> \o issued
    IN  \A i \in 1..(Len(calls) - 1) : calls[i] # calls[i + 1]

\* C2 (as stated): with throttling enabled and the rate unchanged, no
\* resume_reading is issued earlier than B/R seconds after the first feed,
\* B being the total of the bytes fed so far.
C2_CumulativeBudget ==
    (Issued("resume") /\ steady /\ first_feed >= 0)
        => (now - first_feed) * TickMs * limit >= fed * 1000

\* C2 (per feed): with throttling enabled and the rate unchanged, no
\* resume_reading is issued earlier than n/R seconds after the most recent
\* feed_data, n being the size of that feed alone.
C2_LastFeedBudget ==
    (Issued("resume") /\ steady /\ first_feed >= 0)
        => (now - reset_time) * TickMs * limit >= io * 1000

\* C2 witness: a resume issued after several feeds, on time for the last
\* feed but before the cumulative budget has elapsed.
C2_Witness ==
    /\ Issued("resume") /\ steady /\ first_feed >= 0
    /\ io > 0 /\ fed > io
    /\ (now - first_feed) * TickMs * limit < fed * 1000

\* C5: the bytes delivered by read* are a prefix of the bytes fed, in
\* order, and are all of them once EOF is fed and everything is drained.
C5_RoundTrip ==
    /\ IsPrefix(out, SourceSeq(0, fed))
    /\ (eof /\ rd.pc = "idle" /\ buffer = <<>>) => out = SourceSeq(0, fed)

\* C6: with throttling enabled, a feed_data that leaves the buffer at or
\* above the threshold appends all its bytes and leaves the transport
\* paused with no resume timer pending; from there feed_data, limit_rate
\* and unlimit_rate keep it paused (only a read* can lead to a resume).
C6_FullBufferFeed ==
    [][ /\ (FeedStep /\ throttling /\ supports /\ Len(buffer') >= b_limit)
              => /\ buffer' = buffer \o SourceSeq(fed, fed' - fed)
                 /\ tpaused'
                 /\ timers' = {}
        /\ ((FeedStep \/ AdminStep) /\ supports /\ tpaused /\ timers = {}
                /\ Len(buffer) >= b_limit)
              => (tpaused' /\ timers' = {} /\ Len(buffer') >= b_limit)
      ]_vars

\* C7: with throttling disabled and the transport flowing, a feed_data that
\* brings the buffer to or above the buffer limit pauses the transport.
C7_UnthrottledFeedPauses ==
    [][ (FeedStep /\ ~throttling /\ supports /\ ~tpaused /\ ~paused
            /\ Len(buffer') >= b_limit)
          => tpaused' ]_vars

\* C8: with throttling enabled and a transport that supports pausing, a
\* feed_data of n bytes at time t that leaves the buffer under the
\* threshold leaves the transport paused and exactly one resume timer
\* scheduled for t + n/rate; when that timer fires the transport is resumed
\* and no timer remains pending.
C8_FeedSchedulesResume ==
    [][ /\ (FeedStep /\ throttling /\ supports /\ Len(buffer') < b_limit)
              => /\ tpaused'
                 /\ check_handle' # NoHandle
                 /\ timers' = {check_handle'}
                 /\ check_handle'.num * limit * TickMs
                      = check_handle'.den
                          * (now * limit * TickMs + (fed' - fed) * 1000)
        /\ (TimerFire /\ throttling /\ supports /\ Len(buffer) < b_limit
                /\ check_handle # NoHandle /\ timers = {check_handle})
              => (~tpaused' /\ timers' = {} /\ check_handle' = NoHandle)
      ]_vars

\* C10: with throttling enabled and the transport paused after a feed of n
\* bytes at time t, a read* that completes at exactly t + n/rate and drains
\* the buffer below the limit resumes the transport during that read.
C10_ReadAtBudgetResumes ==
    [][ (ReadStep /\ supports /\ throttling /\ paused /\ tpaused /\ io > 0
            /\ (now - reset_time) * TickMs * limit = io * 1000
            /\ rd'.pc = "idle" /\ Len(buffer') < Len(buffer)
            /\ Len(buffer') < b_limit)
          => (Has(issued', "resume") /\ ~tpaused') ]_vars

ScenarioFeedStep == \E k \in ScenarioChunks : ScenarioFeed(k)

\* C9 (as stated): the pause-for-buffer threshold is the configured buffer
\* limit: with rate 10 B/s and buffer limit 10, feeding 12 bytes into an
\* empty buffer leaves the reader paused for buffer, no resume timer.
C9_ThresholdIsBufferLimit ==
    [][ (ScenarioFeed(12) /\ throttling /\ buffer = <<>> /\ limit = 10
            /\ buffer_limit = 10)
          => (b_limit_reached' /\ check_handle' = NoHandle /\ timers' = {})
      ]_vars

\* C9 (amended): the pause-for-buffer threshold is twice the configured
\* buffer limit: with rate 10 B/s and buffer limit 10 a throttled feed
\* leaves the reader paused for buffer with no resume timer exactly when
\* the occupancy reaches 20; feeding 12 bytes into an empty buffer leaves a
\* resume timer scheduled for 1.2 s later.
C9_ThresholdIsTwiceBufferLimit ==
    [][ (ScenarioFeedStep /\ throttling /\ buffer_limit = 10)
          => /\ b_limit' = 2 * buffer_limit
             /\ (Len(buffer') >= 2 * buffer_limit)
                  <=> (check_handle' = NoHandle /\ timers' = {})
             /\ (Len(buffer') >= 2 * buffer_limit) => b_limit_reached'
             /\ (buffer = <<>> /\ Len(buffer') = 12 /\ limit = 10)
                  => /\ check_handle' # NoHandle
                     /\ timers' = {check_handle'}
                     /\ b_limit_reached' = b_limit_reached
                     /\ check_handle'.num * TickMs
                          = check_handle'.den * (now * TickMs + 1200)
      ]_vars

\* C9 witness: 12 bytes were fed into the empty buffer of a reader with
\* rate 10 and buffer limit 10, and its resume timer is pending.
C9_Witness ==
    /\ buffer_limit = 10 /\ limit = 10 /\ throttling
    /\ fed = 12 /\ Len(buffer) = 12 /\ io = 12 /\ reset_time = now
    /\ check_handle # NoHandle /\ timers = {check_handle}
    /\ ~b_limit_reached

\* C11: unlimit_rate called while the transport is paused and the buffer
\* is at or above the threshold sets throttling to false and issues no
\* resume_reading: the transport is still paused when it returns.
C11_UnlimitFullStaysPaused ==
    [][ (UnlimitRate /\ supports /\ tpaused /\ Len(buffer) >= b_limit)
          => (~throttling' /\ issued' = <<>> /\ tpaused' /\ paused') ]_vars

\* C11 witness: throttling was switched off, the buffer is at or above the
\* threshold and the transport is paused, no transport call issued.
C11_Witness ==
    /\ supports /\ ~throttling /\ ~steady /\ tpaused /\ paused
    /\ Len(buffer) >= b_limit /\ issued = <<>> /\ b_limit_reached

\* C12: unlimit_rate called while the transport is paused for rate (resume
\* timer pending, buffer under the threshold) resumes the transport at once
\* and cancels the timer: none is pending when it returns.
C12_UnlimitCancelsTimer ==
    [][ (UnlimitRate /\ supports /\ tpaused /\ throttling
            /\ check_handle # NoHandle /\ check_handle \in timers
            /\ Len(buffer) < b_limit)
          => (~tpaused' /\ timers' = {} /\ check_handle' = NoHandle) ]_vars

\* C13: unlimit_rate is idempotent: a second call right after the first
\* issues no transport call and leaves the reader state as the first call
\* left it.
C13_UnlimitIdempotent ==
    [][ UnlimitRate
          => LET again == unlimit_rate(Cur')
             IN  again.issued = <<>> /\ again = Cur' ]_vars

\* C13 witness: unlimit_rate has resumed a paused transport.
C13_Witness ==
    /\ supports /\ ~throttling /\ ~steady /\ ~paused /\ ~tpaused
    /\ issued = <<"resume">> /\ Len(buffer) < b_limit
    /\ check_handle # NoHandle /\ io > 0

\* C14: a rate <= 0 is rejected with ValueError and changes nothing:
\* Throttle construction yields no object, assigning Throttle.limit leaves
\* the limit and the accumulated bytes as they were, limit_rate leaves the
\* rate and the throttling flag as they were; a rate > 0 replaces the rate
\* (and limit_rate then switches throttling on).
C14_InvalidRateRejected ==
    [][ \A v \in Rates \cup BadRates :
          LimitRate(v)
            => /\ (v <= 0)
                  => /\ limit_rate(Cur, v).raised = "ValueError"
                     /\ limit' = limit /\ throttling' = throttling
                     /\ io' = io /\ reset_time' = reset_time
                     /\ \A w \in InvalidLimits \cup BadRates :
                           /\ ~Throttle_init(w).made
                           /\ Throttle_init(w).raised = "ValueError"
                           /\ set_limit(Cur, w)
                                = [Cur EXCEPT !.raised = "ValueError"]
               /\ (v > 0)
                  => /\ limit_rate(Cur, v).raised = "none"
                     /\ limit' = v /\ throttling'
                     /\ io' = io /\ reset_time' = reset_time
                     /\ Throttle_init(v).made /\ Throttle_init(v).limit = v
                     /\ set_limit(Cur, v) = [Cur EXCEPT !.limit = v]
      ]_vars

\* C14 witness: limit_rate has replaced the rate (or switched throttling
\* back on) with bytes accounted, and the accounting is untouched.
C14_Witness ==
    /\ ~steady /\ throttling /\ io > 0 /\ now > reset_time /\ limit \in Rates
    /\ issued = <<>>

\* C15: for every sequence of add_io, reset_io and limit changes,
\* time_left() is accumulated bytes / target rate and >= 0 whatever the
\* clock says, and the accumulated bytes only grow between resets.
C15_TimeLeftIsBytesOverRate ==
    [][ LET tl == time_left(Cur')
        IN  /\ tl.den > 0 /\ tl.num >= 0
            /\ tl.num * limit' * TickMs = io' * 1000 * tl.den
            /\ Tick => time_left(Cur') = time_left(Cur)
            /\ ~ResetIo => io' >= io
            /\ ResetIo => (io' = 0 /\ tl.num = 0)
      ]_vars

\* C15 witness: bytes added in several steps, time elapsed since the
\* reset, the byte count not a multiple of the rate.
C15_Witness ==
    /\ io = 3 /\ limit = 10 /\ reset_time < now

C17_EofCancelsTimer ==
    [][ /\ FeedEof => (timers' = {} /\ check_handle' = NoHandle)
        /\ (TimerFire /\ eof) => ~Has(issued', "resume") ]_vars

\* C18 (as stated): read(0) returns an empty result at once in every
\* state: nothing is delivered or taken, it does not suspend or fail, no
\* pause/resume call is issued and the resume timer is not touched.
C18_ReadZeroDoesNothing ==
    [][ Call("read", 0)
          => /\ rd' = IdleReader /\ StartCall(Cur, "read", 0).raised = "none"
             /\ out' = out /\ buffer' = buffer
             /\ issued' = <<>> /\ paused' = paused /\ tpaused' = tpaused
             /\ timers' = timers /\ check_handle' = check_handle
             /\ b_limit_reached' = b_limit_reached ]_vars

\* C18 (amended): read(0) takes nothing from the buffer, delivers nothing
\* and never waits for data, but it runs the post-read check of every
\* read*: its effect on the transport, the mirror and the resume timer is
\* that of one _check_buffer_limit, which may resume the transport,
\* reschedule the timer, fail its assertion, or sleep one millisecond
\* when no time has passed since the last feed.
C18_ReadZeroOnlyChecks ==
    [][ Call("read", 0)
          => LET c == _check_buffer_limit(Cur)
             IN  /\ out' = out /\ buffer' = buffer
                 /\ rd'.pc \in {"idle", "sleep"}
                 /\ (rd'.pc = "sleep") <=> (c.raised = "retry")
                 /\ issued' = c.issued /\ paused' = c.paused
                 /\ tpaused' = c.tpaused /\ timers' = c.timers
                 /\ check_handle' = c.check_handle
                 /\ b_limit_reached' = c.b_limit_reached ]_vars

\* C18 witness: a read that delivered nothing and left the buffer as it
\* was has resumed the transport, the feed's timer still pending.
C18_Witness ==
    /\ supports /\ throttling /\ steady /\ rd = IdleReader
    /\ issued = <<"resume">> /\ ~paused /\ ~tpaused
    /\ check_handle # NoHandle /\ check_handle \in timers
    /\ out = <<>> /\ buffer # <<>> /\ Len(buffer) = fed /\ ~eof

\* the buffer b (end-of-stream e) holds what the request op(n) asks for
Satisfiable(b, e, op, n) ==
    \/ e
    \/ op = "read" /\ (n = 0 \/ (n > 0 /\ b # <<>>))
    \/ op = "readany" /\ b # <<>>
    \/ op = "readline" /\ FindNewline(b) # 0
    \/ op = "readexactly" /\ Len(b) >= n

\* the step starts the call op(n), or continues it after a wait for data
CallOrWake(op, n) ==
    \/ Call(op, n)
    \/ Wake /\ rd.op = op /\ rd.n = n

Requests ==
    ({"read"} \X ReadSizes) \cup ({"readany", "readline"} \X {0})
        \cup ({"readexactly"} \X UNION {1..n : n \in ExactSizes})

\* C19 (as stated): a read* call suspends only when the buffer cannot
\* satisfy the request and EOF has not been reached; when the buffer holds
\* enough it completes without yielding to other events.
C19_SuspendsOnlyForData ==
    [][ /\ \A q \in Requests :
              (CallOrWake(q[1], q[2]) /\ Satisfiable(buffer, eof, q[1], q[2]))
                => rd'.pc = "idle"
        /\ SleepWake => rd'.pc # "sleep" ]_vars

\* C19 (amended): a read* call waits for data only when the buffer cannot
\* satisfy the request and EOF has not been reached; besides that it
\* yields only in its post-read check, sleeping one millisecond, when the
\* transport is marked paused and bytes were fed with no time elapsed
\* since (the rate cannot be measured yet).  Only a read* step changes rd.
C19_SuspendsForDataOrClock ==
    [][ /\ \A q \in Requests :
              (rd' # rd /\ rd'.pc = "wait"
                  /\ Satisfiable(buffer, eof, q[1], q[2]))
                => ~CallOrWake(q[1], q[2])
        /\ (rd' # rd)
              => /\ rd'.pc \in {"idle", "wait", "sleep"}
                 /\ (rd'.pc = "wait") => (~eof' /\ rd'.data = <<>>)
                 /\ (rd'.pc = "sleep")
                      => (paused' /\ io' > 0 /\ reset_time' = now
                            /\ rd'.since = now) ]_vars

\* C19 witness: a read whose data was in the buffer is asleep in its
\* post-read check, at the time of the last feed.
C19_Witness ==
    /\ rd.pc = "sleep" /\ rd.op = "read" /\ rd.n = 1 /\ Len(rd.data) = 1
    /\ paused /\ io > 0 /\ reset_time = now /\ rd.since = now

CallRequests ==
    ({"read"} \X ReadSizes) \cup ({"readany", "readline"} \X {0})
        \cup ({"readexactly"} \X ExactSizes)

\* C20: with a transport that lacks pause_reading / resume_reading no
\* error reaches the feeder or the consumer: the failed pause or resume is
\* swallowed, no transport call is made, the mirror stays as it was and
\* no read* fails on the reader's own buffer assertion.
C20_NoErrorWithoutPauseSupport ==
    [][ ~supports
          => /\ paused' = paused /\ tpaused' = tpaused /\ issued' = <<>>
             /\ \A k \in ChunkSizes :
                   Feed(k) => feed_data(Cur, SourceSeq(fed, k)).raised = "none"
             /\ \A q \in CallRequests :
                   Call(q[1], q[2])
                     => StartCall(Cur, q[1], q[2]).raised # "AssertionError"
             /\ Wake => RunReader([Cur EXCEPT !.rd.pc = "super"]).raised
                          # "AssertionError"
             /\ SleepWake => RunReader([Cur EXCEPT !.rd.pc = "check"]).raised
                               # "AssertionError" ]_vars

\* what the read* call raises when the sleeping post-read check runs again
SleepWakeRaised == RunReader([Cur EXCEPT !.rd.pc = "check"]).raised

C22_SingleTimer ==
    /\ Cardinality(timers) <= 1
    /\ timers = IF check_handle = NoHandle THEN {} ELSE {check_handle}

\* C22 witness: a read has replaced the feed's timer by a later one, which
\* is the only one live.
C22_Witness ==
    /\ steady /\ io > 0 /\ check_handle # NoHandle /\ timers = {check_handle}
    /\ check_handle.num * limit * TickMs
         > check_handle.den * (reset_time * limit * TickMs + io * 1000)

\* C23: every feed_data resets and re-primes the meter: on return the
\* accumulated bytes are len(data) of that call and the reset time is the
\* time of the feed, throttling or not; no other operation of the reader
\* changes the meter's accounting.
C23_FeedReprimesMeter ==
    [][ /\ \A k \in ChunkSizes :
              (fed' = fed + k /\ Feed(k)) => (io' = k /\ reset_time' = now)
        /\ (io' # io \/ reset_time' # reset_time) => FeedStep ]_vars

\* C23 witness: with throttling off, the meter holds the size of the last
\* of several feeds, taken at the time of that feed.
C23_Witness ==
    /\ ~throttling /\ io > 0 /\ fed > io /\ reset_time = now /\ now > 0
    /\ first_feed < reset_time

\* C24: the process-wide switch round-trips, the last call winning.  If
\* the last call was aiothrottle.limit_rate(L) the factory is the partial
\* with rate L, and a reader created through it is a ThrottledStreamReader
\* with target rate L and throttling on; if it was aiothrottle.unlimit_rate()
\* the factory is the default FlowControlStreamReader again; neither call
\* touches the reader that already exists.
C24_SwitchRoundTrips ==
    [][ /\ flow_control_class'
             = IF last_switch'.op = "limit_rate"
               THEN [cls |-> "ThrottledStreamReader",
                     rate_limit |-> last_switch'.limit]
               ELSE DefaultClass
        /\ (last_switch' # last_switch
              \/ flow_control_class' # flow_control_class)
             => reader_vars' = reader_vars
        /\ (buffer_limit' # buffer_limit /\ \E p \in BOOLEAN : NewReader(p))
              => /\ last_switch.op = "limit_rate"
                 /\ limit' = last_switch.limit
                 /\ throttling' /\ limit' > 0
                 /\ buffer' = <<>> /\ io' = 0 /\ timers' = {}
      ]_vars

\* C24 witness: a reader built through the partial of limit_rate(5) is
\* still rate-limited at 5 and taking data after unlimit_rate() has put the
\* default class back.
C24_Witness ==
    /\ flow_control_class = DefaultClass /\ last_switch.op = "unlimit_rate"
    /\ buffer_limit = DefaultBufferLimit /\ limit = 5 /\ throttling
    /\ fed > 0 /\ io > 0 /\ check_handle # NoHandle

\* C25: the reader's limit_rate(r) and unlimit_rate() lose no buffered
\* data: both leave the buffer and the meter's accumulated bytes as they
\* are.  limit_rate(r) changes only the target rate and sets throttling
\* (a rejected r changes nothing): no transport call, no timer change.
\* unlimit_rate() changes only the throttling flag and may resume the
\* transport.
C25_AdminKeepsData ==
    [][ /\ \A v \in Rates \cup BadRates :
              LimitRate(v)
                => /\ buffer' = buffer /\ io' = io /\ reset_time' = reset_time
                   /\ eof' = eof /\ out' = out /\ rd' = rd
                   /\ b_limit' = b_limit
                   /\ b_limit_reached' = b_limit_reached
                   /\ issued' = <<>>
                   /\ paused' = paused /\ tpaused' = tpaused
                   /\ timers' = timers /\ check_handle' = check_handle
                   /\ IF v > 0 THEN limit' = v /\ throttling'
                      ELSE limit' = limit /\ throttling' = throttling
        /\ UnlimitRate
              => /\ buffer' = buffer /\ io' = io /\ reset_time' = reset_time
                 /\ eof' = eof /\ out' = out /\ rd' = rd
                 /\ b_limit' = b_limit /\ b_limit_reached' = b_limit_reached
                 /\ limit' = limit
                 /\ timers' = timers /\ check_handle' = check_handle
                 /\ ~throttling'
                 /\ issued' \in {<<>>, <<"resume">>}
                 /\ IF issued' = <<>>
                    THEN paused' = paused /\ tpaused' = tpaused
                    ELSE paused /\ ~paused' /\ ~tpaused'
      ]_vars

\* C25 witness: the rate was changed while data was buffered and a timer
\* pending; the timer is still the one computed with the earlier rate.
C25_Witness ==
    /\ throttling /\ ~steady /\ buffer # <<>> /\ io > 0 /\ paused
    /\ now = reset_time /\ check_handle # NoHandle
    /\ check_handle.num * limit * TickMs
         # check_handle.den * (reset_time * limit * TickMs + io * 1000)

\* C26: the assertion of the post-read check always holds: whenever a
\* read* call has drained the buffer and the mirror says the transport is
\* not paused, the buffer holds at most _b_limit bytes, so no read* call
\* ends in an AssertionError, with or without pause support.
C26_AssertionHolds ==
    [][ /\ \A q \in CallRequests :
              (rd.pc = "idle" /\ Call(q[1], q[2]))
                => StartCall(Cur, q[1], q[2]).raised # "AssertionError"
        /\ (rd.pc = "wait" /\ Wake)
              => RunReader([Cur EXCEPT !.rd.pc = "super"]).raised
                   # "AssertionError"
        /\ (rd.pc = "sleep" /\ SleepWake)
              => SleepWakeRaised # "AssertionError"
      ]_vars

C29_NoStaleTimer ==
    /\ timers # {} => paused
    /\ Issued("resume") => (timers = {} /\ check_handle = NoHandle)

\* C30: the per-chunk rate guarantee.  While throttling has stayed on and
\* the rate R unchanged since a feed_data of n bytes at time t, every
\* resume timer is set for t + n/R or later and no handler, timer callback
\* or read* post-check, issues resume_reading before t + n/R; only
\* unlimit_rate resumes earlier.
C30_PerChunkGuarantee ==
    (feed_steady /\ throttling /\ first_feed >= 0)
      => /\ \A h \in timers :
               h.num * limit * TickMs
                 >= h.den * (reset_time * limit * TickMs + io * 1000)
         /\ Issued("resume")
               => io * 1000 <= limit * (now - reset_time) * TickMs

\* C30 witness: after an unlimit_rate and a new limit_rate, a chunk was fed
\* and a read* resumed the transport once the chunk's n/R had passed.
C30_Witness ==
    /\ feed_steady /\ ~steady /\ throttling /\ supports
    /\ issued = <<"resume">> /\ io > 0 /\ rd.pc = "idle" /\ out # <<>>
    /\ io * 1000 <= limit * (now - reset_time) * TickMs
    /\ prev_call = "pause" /\ fed = io

\* C31: no backpressure deadlock: whenever a read* call is suspended
\* waiting for more data (its waiter not yet set) and end-of-stream has not
\* been reached, the transport is not paused or a resume timer is pending,
\* so that data keeps coming and the call returns in the end.
C31_NoBackpressureDeadlock ==
    (supports /\ rd.pc = "wait" /\ ~Woken(Cur) /\ ~eof)
        => (~tpaused \/ timers # {})

====
